---- MODULE Spec2Model ----
(***************************************************************************)
(* Model of imagebuilder (src/main.rs): the build pipeline                 *)
(* (build / create_kernel_diskimage) and the emulator supervisor (run_vm). *)
(* Every call whose Result the code inspects (?, unwrap, expect, map_err)  *)
(* is a nondeterministic choice between Ok and Err.                        *)
(***************************************************************************)
EXTENDS Integers, Sequences, FiniteSets, TLC

\* ---------------------------------------------------------------- bounds
NumContents == 2        \* distinct file contents
MaxCode == 6            \* largest exit code the emulator child may produce
MaxTimeout == 1         \* largest timeout (seconds) given to run

\* ------------------------------------------------------------- constants
SentinelCode == 5       \* emulator code that means "tests passed"
PanicCode == 101        \* exit code of a Rust process whose main thread panicked

None == "None"          \* Option::None of a path
NoCode == -1            \* Option::None of an exit code (status.code())
NoTimeout == -1         \* Option::None of opts.timeout
NotExited == -2         \* the outer process has not terminated yet
NoFile == 0
Contents == 1..NumContents
Codes == 0..MaxCode
Variants == {"bios", "uefi"}
Procs == {"compiler", "builder", "emulator"}

\* The stages of the build operation, in the order build() runs them.
StageOrder ==
  <<"ValidateOutputDir", "CompileKernel", "ResolveDescriptor", "ResolveBinaryPath",
    "InvokeBootloaderBuilder", "Materialize", "Report">>

VARIABLES
  subcmd,       \* opts.subcmd: "Build" or "Run"
  opts,         \* the BuildOpts / RunOpts fields the code reads
  pc,           \* position of the (single) thread
  outExists,    \* the output directory exists
  fs,           \* content of the four image paths (NoFile = absent)
  uefi,         \* parameter uefi of create_kernel_diskimage
  _bios,        \* parameter _bios of create_kernel_diskimage
  argv,         \* argument vector the bootloader builder was run with
  exists,       \* result of biosimage.exists() / uefiimage.exists()
  ioResult,     \* per variant: result of rename and canonicalize
  diskimage,    \* the (bios, uefi) pair under construction / returned
  child,        \* per spawned process: none / running / zombie / reaped
  childCode,    \* exit code the emulator child has died with (None: by signal)
  status_code,  \* run_vm's status_code
  elapsed,      \* seconds spent in wait_timeout
  waitResult,   \* what wait_timeout returned
  killIssued,   \* child.kill() was called
  err,          \* the error the pipeline failed with
  exitCode,     \* exit code of the outer process
  stages,       \* stages started so far, in order
  outcomes,     \* raw outcome of every stage
  spawns,       \* processes spawned so far, in order
  reported,     \* variants build() logged as created
  form,         \* form (raw / canonical) of the paths the program holds
  uses,         \* paths tested, moved or passed to a sub-process so far
  drive,        \* the diskimage argument of run_vm
  preMove       \* content of the candidate artifacts when the builder returned

vars == <<subcmd, opts, pc, outExists, fs, uefi, _bios, argv, exists, ioResult,
          diskimage, child, childCode, status_code, elapsed, waitResult,
          killIssued, err, exitCode, stages, outcomes, spawns, reported, form,
          uses, drive, preMove>>

inputVars == <<subcmd, opts>>
paramVars == <<uefi, _bios, argv>>
matVars == <<exists, ioResult, diskimage, preMove>>
vmVars == <<childCode, status_code, elapsed, waitResult, killIssued>>
logVars == <<stages, outcomes>>
pathVars == <<form, uses, drive>>

\* ------------------------------------------------------------- helpers

\* a success test that accepts every status
Success_Always(status) == TRUE

\* ExitStatus::success()
Success(status) == status = 0

\* an exit closure that forgets the sentinel
RemapExitCode_NoSentinel(code) ==
  IF code = NoCode THEN 1 ELSE code

\* the closure of run_vm's exit(...): 5 becomes 0, a missing code becomes 1
RemapExitCode(code) ==
  IF code = NoCode THEN 1 ELSE IF code = SentinelCode THEN 0 ELSE code

\* `if !uefi { build_cmd.arg("--firmware").arg("bios"); }`
FirmwareArgs(uefi_param) ==
  IF ~uefi_param THEN <<"--firmware", "bios">> ELSE <<>>

\* arguments of the bootloader builder
BuilderArgv(uefi_param) ==
  <<"builder", "--quiet", "--kernel-manifest", "--kernel-binary",
    "--target-dir", "--out-dir">> \o FirmwareArgs(uefi_param)

\* biosimage / uefiimage: bootimage-{variant}-{binary}.img next to the binary
CandidatePath(v) == IF v = "bios" THEN "cand_bios" ELSE "cand_uefi"

\* out.join("bios.img") / out.join("uefi.img")
OutPath(v) == IF v = "bios" THEN "out_bios" ELSE "out_uefi"

Paths == {CandidatePath(v) : v \in Variants} \cup {OutPath(v) : v \in Variants}

\* a relocation that copies and leaves the source in place
Rename_Copy(f, src, dst) == [f EXCEPT ![dst] = f[src]]

\* std::fs::rename: the destination takes the source's content, the source is gone
Rename(f, src, dst) == [f EXCEPT ![dst] = f[src], ![src] = NoFile]

\* an existence test that is always true
Exists_Always(f, p) == TRUE

\* Path::exists of one of the modelled paths
Exists(f, p) == f[p] # NoFile

\* an output-directory check that creates the directory without being asked to
OutDirDecision_AlwaysCreate(dirExists, create_out) ==
  IF dirExists THEN "proceed" ELSE "create"

\* build: the nested ifs on opts.out.exists() and opts.create_out
OutDirDecision(dirExists, create_out) ==
  IF dirExists THEN "proceed" ELSE IF ~create_out THEN "OutNotExist" ELSE "create"

\* a report that names every variant
ReportedVariants_All(d) == Variants

\* build: the two `if let Some(image)` blocks
ReportedVariants(d) == {v \in Variants : d[v] # None}

\* a canonicalization that returns the path as it was
Canonicalize_Identity(f) == f

\* Path::canonicalize: the result is absolute and free of symlinks
Canonicalize(f) == "canonical"

\* Path::parent / Path::join of a file name: the form of the base is kept
Derived(f) == f

\* one use of a path: by exists(), by rename, or as an argument of a child
Use(name, path, f) == [use |-> name, path |-> path, form |-> f]

\* the second image of the pair
RunImage_Second(d) == d["uefi"]

\* the image of the returned pair that main hands to the emulator: `.0`
RunImage(d) == d["bios"]

\* a child that is spawned and left running
StatusChild_NoWait == "running"

\* Command::status(): the child is spawned and waited on before the call returns
StatusChild == "reaped"

\* arguments build() passes as (uefi, _bios) to create_kernel_diskimage
BuildCallArgs(o) == <<~o.disable_bios, ~o.disable_uefi>>

\* arguments main() passes as (uefi, _bios) in the Run arm
RunCallArgs == <<FALSE, TRUE>>

\* where control goes when create_kernel_diskimage returns Ok
AfterDiskimage(cmd) == IF cmd = "Build" THEN "Report" ELSE "Expect"

\* record one stage and its raw outcome
Stage(name, outcome) ==
  /\ stages' = Append(stages, name)
  /\ outcomes' = [outcomes EXCEPT ![name] = outcome]

\* name of an ExitStatus in the stage log
StatusName(status) ==
  IF status = 0 THEN "exit_0" ELSE IF status = NoCode THEN "no_status" ELSE "exit_nonzero"

\* an error that is recorded but does not stop the process from succeeding
Fail_Swallowed(e) == err' = e /\ pc' = "MainOk"

\* the error is propagated to main, which ends the process
Fail(e) == err' = e /\ pc' = "MainErr"

\* a panic of the main thread ends the process with code 101
Panic == err' = "panic" /\ exitCode' = PanicCode /\ pc' = "done"

\* ---------------------------------------------------------------- Init

\* a path is either as the caller or a library gave it, or canonicalized
Forms == {"raw", "canonical"}

\* the path values of main, build and create_kernel_diskimage
PathNames ==
  {"out", "binary_path", "kernel_binary_path", "kernel_manifest", "bios", "uefi"}

BuildOptsSet ==
  [create_out : BOOLEAN, disable_bios : BOOLEAN, disable_uefi : BOOLEAN,
   timeout : {NoTimeout}]

RunOptsSet ==
  [create_out : {FALSE}, disable_bios : {FALSE}, disable_uefi : {FALSE},
   timeout : {NoTimeout} \cup (0..MaxTimeout)]

Init ==
  /\ subcmd \in {"Build", "Run"}
  /\ opts \in (IF subcmd = "Build" THEN BuildOptsSet ELSE RunOptsSet)
  /\ pc = "Main"
  /\ outExists \in BOOLEAN
  /\ fs \in [Paths -> {NoFile} \cup Contents]
  /\ \A v \in Variants : ~outExists => fs[OutPath(v)] = NoFile
  /\ uefi = FALSE
  /\ _bios = FALSE
  /\ argv = <<>>
  /\ exists = [v \in Variants |-> FALSE]
  /\ ioResult = [v \in Variants |-> [rename |-> None, canonicalize |-> None]]
  /\ diskimage = [v \in Variants |-> None]
  /\ child = [p \in Procs |-> "none"]
  /\ childCode = NoCode
  /\ status_code = NoCode
  /\ elapsed = 0
  /\ waitResult = "pending"
  /\ killIssued = FALSE
  /\ err = None
  /\ exitCode = NotExited
  /\ stages = <<>>
  /\ outcomes = [s \in {StageOrder[i] : i \in 1..Len(StageOrder)} |-> "pending"]
  /\ spawns = <<>>
  /\ reported = {}
  /\ \E o \in Forms : \E b \in (IF subcmd = "Run" THEN Forms ELSE {"unset"}) :
       form = [n \in PathNames |->
                 IF n = "out" THEN o ELSE IF n = "binary_path" THEN b ELSE "unset"]
  /\ uses = {}
  /\ drive = None
  /\ preMove = [v \in Variants |-> NoFile]

\* ------------------------------------------------------------- main

\* a Run arm that starts with the whole of build()
SubcommandEntry_RunBuilds(cmd) == "ValidateOutputDir"

\* main: first statement of the match arm of the subcommand
SubcommandEntry(cmd) ==
  IF cmd = "Build" THEN "ValidateOutputDir" ELSE "RunCanonicalize"

\* main: `match opts.subcmd`
Main ==
  /\ pc = "Main"
  /\ pc' = SubcommandEntry(subcmd)
  /\ UNCHANGED <<inputVars, pathVars, paramVars, matVars, vmVars, logVars, outExists, fs,
                 child, err, exitCode, spawns, reported>>

\* ------------------------------------------------------------- build

\* build: `if !opts.out.exists() { ... }`
ValidateOutputDir ==
  /\ pc = "ValidateOutputDir"
  /\ \/ /\ OutDirDecision(outExists, opts.create_out) = "proceed"
        /\ Stage("ValidateOutputDir", "ok")
        /\ pc' = "CompileKernel"
        /\ UNCHANGED <<outExists, err>>
     \/ /\ OutDirDecision(outExists, opts.create_out) = "OutNotExist"
        /\ Stage("ValidateOutputDir", "OutNotExist")
        /\ Fail("OutNotExist")
        /\ UNCHANGED outExists
     \/ /\ OutDirDecision(outExists, opts.create_out) = "create"
        /\ \E r \in {"ok", "io_err"} :
             /\ Stage("ValidateOutputDir", r)
             /\ IF r = "ok"
                  THEN outExists' = TRUE /\ pc' = "CompileKernel" /\ UNCHANGED err
                  ELSE Fail("Io") /\ UNCHANGED outExists
  /\ UNCHANGED <<inputVars, pathVars, paramVars, matVars, vmVars, fs, child, exitCode,
                 spawns, reported>>

\* build: `build_cmd.status()?.success()` of the kernel compiler
CompileKernel ==
  /\ pc = "CompileKernel"
  /\ \/ /\ Stage("CompileKernel", "spawn_err")
        /\ Fail("Io")
        /\ UNCHANGED <<child, spawns>>
     \/ \E status \in {0, 1, NoCode} :
          /\ Stage("CompileKernel", StatusName(status))
          /\ child' = [child EXCEPT !["compiler"] = StatusChild]
          /\ spawns' = Append(spawns, "compiler")
          /\ IF Success(status)
               THEN pc' = "ResolveDescriptor" /\ UNCHANGED err
               ELSE Fail("BuildFailed")
  /\ UNCHANGED <<inputVars, pathVars, paramVars, matVars, vmVars, outExists, fs, exitCode,
                 reported>>

\* build: locate_manifest()?, Manifest::from_path()?, manifest.package.ok_or()
ResolveDescriptor ==
  /\ pc = "ResolveDescriptor"
  /\ \E r \in {"ok", "ManifestNotFound", "ManifestParse", "KernelManifest"} :
       /\ Stage("ResolveDescriptor", r)
       /\ IF r = "ok"
            THEN /\ pc' = "ResolveBinaryPath"
                 /\ \E m \in Forms : form' = [form EXCEPT !["kernel_manifest"] = m]
                 /\ UNCHANGED err
            ELSE Fail(r) /\ UNCHANGED form
  /\ UNCHANGED <<inputVars, uses, drive, paramVars, matVars, vmVars, outExists, fs, child,
                 exitCode, spawns, reported>>

\* build: target_dir_root, binary_path, binary_path.canonicalize()?, and the
\* call of create_kernel_diskimage
ResolveBinaryPath ==
  /\ pc = "ResolveBinaryPath"
  /\ \E r \in {"ok", "KernelRootNotFound", "Io"} :
       /\ Stage("ResolveBinaryPath", r)
       /\ IF r = "ok"
            THEN /\ uefi' = BuildCallArgs(opts)[1]
                 /\ _bios' = BuildCallArgs(opts)[2]
                 /\ form' = [form EXCEPT
                               !["binary_path"] = Derived(form["kernel_manifest"]),
                               !["kernel_binary_path"] =
                                   Canonicalize(Derived(form["kernel_manifest"]))]
                 /\ pc' = "InvokeBootloaderBuilder"
                 /\ UNCHANGED err
            ELSE Fail(r) /\ UNCHANGED <<uefi, _bios, form>>
  /\ UNCHANGED <<inputVars, uses, drive, argv, matVars, vmVars, outExists, fs, child,
                 exitCode, spawns, reported>>

\* build: the info! lines about the images in the returned pair, then Ok(())
Report ==
  /\ pc = "Report"
  /\ Stage("Report", "ok")
  /\ reported' = ReportedVariants(diskimage)
  /\ pc' = "MainOk"
  /\ UNCHANGED <<inputVars, pathVars, paramVars, matVars, vmVars, outExists, fs, child,
                 err, exitCode, spawns>>

\* main: the trailing Ok(()) ends the process with code 0
MainOk ==
  /\ pc = "MainOk"
  /\ exitCode' = 0
  /\ pc' = "done"
  /\ UNCHANGED <<inputVars, pathVars, paramVars, matVars, vmVars, logVars, outExists, fs,
                 child, err, spawns, reported>>

\* main: Build arm error!(..); exit(1); Run arm `?` returns Err from main,
\* which the runtime turns into exit code 1
MainErr ==
  /\ pc = "MainErr"
  /\ exitCode' = 1
  /\ pc' = "done"
  /\ UNCHANGED <<inputVars, pathVars, paramVars, matVars, vmVars, logVars, outExists, fs,
                 child, err, spawns, reported>>

\* ------------------------------------------- create_kernel_diskimage

\* the path arguments of the builder: the manifest as locate_manifest returned
\* it, the kernel binary, target/ next to the manifest, the binary's directory
BuilderPathArgs(manifest, binary) ==
  { Use("--kernel-manifest", "kernel_manifest", manifest),
    Use("--kernel-binary", "kernel_binary_path", binary),
    Use("--target-dir", "target", Derived(manifest)),
    Use("--out-dir", "binary_parent", Derived(binary)) }

\* locate_bootloader, locate_manifest, the builder's argv and its status()
InvokeBootloaderBuilder ==
  /\ pc = "InvokeBootloaderBuilder"
  /\ \/ \E r \in {"BootloaderNotFound", "ManifestNotFound", "RootNotFound"} :
          /\ Stage("InvokeBootloaderBuilder", r)
          /\ Fail(r)
          /\ UNCHANGED <<argv, fs, child, spawns, preMove, form, uses>>
     \/ \E m \in Forms :
          /\ Stage("InvokeBootloaderBuilder", "spawn_err")
          /\ argv' = BuilderArgv(uefi)
          /\ form' = [form EXCEPT !["kernel_manifest"] = m]
          /\ Fail("BuildFailed")
          /\ UNCHANGED <<fs, child, spawns, preMove, uses>>
     \/ \E m \in Forms :
        \E status \in {0, 1, NoCode} :
        \E emitted \in SUBSET (IF FirmwareArgs(uefi) = <<>> THEN Variants ELSE {"bios"}) :
        \E c \in Contents :
          /\ Stage("InvokeBootloaderBuilder", StatusName(status))
          /\ argv' = BuilderArgv(uefi)
          /\ form' = [form EXCEPT !["kernel_manifest"] = m]
          /\ uses' = uses \cup BuilderPathArgs(m, form["kernel_binary_path"])
          /\ child' = [child EXCEPT !["builder"] = StatusChild]
          /\ spawns' = Append(spawns, "builder")
          /\ fs' = [p \in Paths |->
                      IF \E v \in emitted : p = CandidatePath(v) THEN c ELSE fs[p]]
          /\ preMove' = [v \in Variants |-> fs'[CandidatePath(v)]]
          /\ IF Success(status)
               THEN pc' = "MaterializeBios" /\ UNCHANGED err
               ELSE Fail("BuildFailed")
  /\ UNCHANGED <<inputVars, drive, uefi, _bios, exists, ioResult, diskimage, vmVars,
                 outExists, exitCode, reported>>

\* `if image.exists() { rename(image, out)?; Some(out.canonicalize()?) } else { None }`
Materialize(v, next) ==
  /\ exists' = [exists EXCEPT ![v] = Exists(fs, CandidatePath(v))]
  /\ uses' = uses \cup
       {Use("exists", CandidatePath(v), Derived(form["kernel_binary_path"]))} \cup
       (IF exists'[v]
          THEN { Use("rename from", CandidatePath(v), Derived(form["kernel_binary_path"])),
                 Use("rename to", OutPath(v), Derived(form["out"])) }
          ELSE {})
  /\ IF ~exists'[v]
       THEN /\ diskimage' = [diskimage EXCEPT ![v] = None]
            /\ pc' = next
            /\ UNCHANGED <<fs, ioResult, err, form>>
       ELSE \E rn \in {"ok", "err"} : \E cn \in {"ok", "err"} :
              /\ rn = "ok" => outExists
              /\ IF rn = "err"
                   THEN /\ cn = "ok"
                        /\ ioResult' = [ioResult EXCEPT ![v].rename = "err"]
                        /\ Fail("Move")
                        /\ UNCHANGED <<fs, diskimage, form>>
                   ELSE /\ fs' = Rename(fs, CandidatePath(v), OutPath(v))
                        /\ ioResult' = [ioResult EXCEPT ![v] = [rename |-> "ok", canonicalize |-> cn]]
                        /\ IF cn = "ok"
                             THEN /\ diskimage' = [diskimage EXCEPT ![v] = OutPath(v)]
                                  /\ form' = [form EXCEPT ![v] = Canonicalize(Derived(form["out"]))]
                                  /\ pc' = next
                                  /\ UNCHANGED err
                             ELSE Fail("FindMoved") /\ UNCHANGED <<diskimage, form>>

\* `let bios = if biosimage.exists() {...}`
MaterializeBios ==
  /\ pc = "MaterializeBios"
  /\ Materialize("bios", "MaterializeUefi")
  /\ Stage("Materialize", IF err' = None THEN "running" ELSE err')
  /\ UNCHANGED <<inputVars, drive, paramVars, preMove, vmVars, outExists, child,
                 exitCode, spawns, reported>>

\* `let uefi = if uefiimage.exists() {...}; Ok((bios, uefi))`
MaterializeUefi ==
  /\ pc = "MaterializeUefi"
  /\ Materialize("uefi", AfterDiskimage(subcmd))
  /\ outcomes' = [outcomes EXCEPT !["Materialize"] = IF err' = None THEN "ok" ELSE err']
  /\ UNCHANGED <<inputVars, drive, paramVars, preMove, vmVars, outExists, child,
                 exitCode, spawns, reported, stages>>

\* ------------------------------------------------------------- run

\* main, Run arm: `opts.binary_path.canonicalize()?` and the call of
\* create_kernel_diskimage(&binary_path, false, true, opts.out)
RunCanonicalize ==
  /\ pc = "RunCanonicalize"
  /\ \/ /\ uefi' = RunCallArgs[1]
        /\ _bios' = RunCallArgs[2]
        /\ form' = [form EXCEPT
                      !["kernel_binary_path"] = Canonicalize(form["binary_path"])]
        /\ pc' = "InvokeBootloaderBuilder"
        /\ UNCHANGED err
     \/ Fail("Io") /\ UNCHANGED <<uefi, _bios, form>>
  /\ UNCHANGED <<inputVars, uses, drive, argv, matVars, vmVars, logVars, outExists, fs, child,
                 exitCode, spawns, reported>>

\* main, Run arm: `.0.expect("Booteable image not found")`
Expect ==
  /\ pc = "Expect"
  /\ drive' = RunImage(diskimage)
  /\ IF drive' = None
       THEN Panic
       ELSE pc' = "Spawn" /\ UNCHANGED <<err, exitCode>>
  /\ UNCHANGED <<inputVars, form, uses, paramVars, matVars, vmVars, logVars, outExists, fs,
                 child, spawns, reported>>

\* form of an image path of the returned pair
ImageForm(path) == IF path = OutPath("bios") THEN form["bios"] ELSE form["uefi"]

\* run_vm: Command::new("qemu-system-x86_64")...spawn().expect(..)
Spawn ==
  /\ pc = "Spawn"
  /\ \/ /\ child' = [child EXCEPT !["emulator"] = "running"]
        /\ spawns' = Append(spawns, "emulator")
        /\ uses' = uses \cup {Use("emulator -drive", drive, ImageForm(drive))}
        /\ pc' = IF opts.timeout # NoTimeout THEN "WaitTimeout" ELSE "Wait"
        /\ UNCHANGED <<err, exitCode>>
     \/ Panic /\ UNCHANGED <<child, spawns, uses>>
  /\ UNCHANGED <<inputVars, form, drive, paramVars, matVars, vmVars, logVars, outExists, fs,
                 reported>>

\* the emulator child terminates by itself, with a code or by a signal
ChildExits ==
  /\ child["emulator"] = "running"
  /\ pc # "done"
  /\ \E c \in Codes \cup {NoCode} : childCode' = c
  /\ child' = [child EXCEPT !["emulator"] = "zombie"]
  /\ UNCHANGED <<inputVars, pathVars, paramVars, matVars, logVars, pc, outExists, fs,
                 status_code, elapsed, waitResult, killIssued, err, exitCode,
                 spawns, reported>>

\* one second of the timeout window passes
Tick ==
  /\ pc = "WaitTimeout"
  /\ elapsed < opts.timeout
  /\ elapsed' = elapsed + 1
  /\ UNCHANGED <<inputVars, pathVars, paramVars, matVars, logVars, pc, outExists, fs, child,
                 childCode, status_code, waitResult, killIssued, err, exitCode,
                 spawns, reported>>

\* `match child.wait_timeout(timeout)` takes the kill arm exactly on None
NeedsKill(result) == result = "None"

\* run_vm: child.wait_timeout(timeout).expect(..) and the match on its result
WaitTimeout ==
  /\ pc = "WaitTimeout"
  /\ \/ /\ child["emulator"] = "zombie"
        /\ waitResult' = "Some"
        /\ child' = [child EXCEPT !["emulator"] = "reaped"]
        /\ status_code' = IF NeedsKill(waitResult') THEN status_code ELSE childCode
        /\ pc' = IF NeedsKill(waitResult') THEN "Kill" ELSE "Exit"
        /\ UNCHANGED <<err, exitCode>>
     \/ /\ child["emulator"] = "running"
        /\ elapsed = opts.timeout
        /\ waitResult' = "None"
        /\ pc' = IF NeedsKill(waitResult') THEN "Kill" ELSE "Exit"
        /\ UNCHANGED <<child, status_code, err, exitCode>>
     \/ /\ waitResult' = "Err"
        /\ Panic
        /\ UNCHANGED <<child, status_code>>
  /\ UNCHANGED <<inputVars, pathVars, paramVars, matVars, logVars, outExists, fs, childCode,
                 elapsed, killIssued, spawns, reported>>

\* run_vm: child.kill().unwrap()
Kill ==
  /\ pc = "Kill"
  /\ killIssued' = TRUE
  /\ \/ /\ child' = [child EXCEPT !["emulator"] =
                       IF @ = "running" THEN "zombie" ELSE @]
        /\ childCode' = IF child["emulator"] = "running" THEN NoCode ELSE childCode
        /\ pc' = "WaitKilled"
        /\ UNCHANGED <<err, exitCode>>
     \/ Panic /\ UNCHANGED <<child, childCode>>
  /\ UNCHANGED <<inputVars, pathVars, paramVars, matVars, logVars, outExists, fs,
                 status_code, elapsed, waitResult, spawns, reported>>

\* child.wait(): blocks until the child has terminated, then reaps it
Wait(after) ==
  \/ /\ child["emulator"] = "zombie"
     /\ child' = [child EXCEPT !["emulator"] = "reaped"]
     /\ status_code' = childCode
     /\ pc' = after
     /\ UNCHANGED <<err, exitCode>>
  \/ Panic /\ UNCHANGED <<child, status_code>>

\* run_vm: child.wait().unwrap().code() after the kill
WaitKilled ==
  /\ pc = "WaitKilled"
  /\ Wait("Exit")
  /\ UNCHANGED <<inputVars, pathVars, paramVars, matVars, logVars, outExists, fs, childCode,
                 elapsed, waitResult, killIssued, spawns, reported>>

\* run_vm: child.wait().expect(..).code() when no timeout is given
WaitUnbounded ==
  /\ pc = "Wait"
  /\ Wait("Exit")
  /\ UNCHANGED <<inputVars, pathVars, paramVars, matVars, logVars, outExists, fs, childCode,
                 elapsed, waitResult, killIssued, spawns, reported>>

\* run_vm: exit(status_code.map(..).unwrap_or(1))
Exit ==
  /\ pc = "Exit"
  /\ exitCode' = RemapExitCode(status_code)
  /\ pc' = "done"
  /\ UNCHANGED <<inputVars, pathVars, paramVars, matVars, vmVars, logVars, outExists, fs,
                 child, err, spawns, reported>>

\* ------------------------------------------------------------- Spec

Next ==
  \/ Main
  \/ ValidateOutputDir
  \/ CompileKernel
  \/ ResolveDescriptor
  \/ ResolveBinaryPath
  \/ InvokeBootloaderBuilder
  \/ MaterializeBios
  \/ MaterializeUefi
  \/ Report
  \/ MainOk
  \/ MainErr
  \/ RunCanonicalize
  \/ Expect
  \/ Spawn
  \/ ChildExits
  \/ Tick
  \/ WaitTimeout
  \/ Kill
  \/ WaitKilled
  \/ WaitUnbounded
  \/ Exit

Spec == Init /\ [][Next]_vars

TypeOK ==
  /\ pc \in {"Main", "ValidateOutputDir", "CompileKernel", "ResolveDescriptor",
             "ResolveBinaryPath", "InvokeBootloaderBuilder", "MaterializeBios",
             "MaterializeUefi", "Report", "MainOk", "MainErr", "RunCanonicalize",
             "Expect", "Spawn", "WaitTimeout", "Kill", "WaitKilled", "Wait",
             "Exit", "done"}
  /\ exitCode \in {NotExited, PanicCode} \cup {1} \cup Codes
  /\ \A p \in Procs : child[p] \in {"none", "running", "zombie", "reaped"}
  /\ (pc = "done") = (exitCode # NotExited)

\* ------------------------------------------------------------- claims

SpawnedSet == {spawns[i] : i \in 1..Len(spawns)}

\* run_vm terminated the process through its exit(..) call
SupervisorExited == pc = "done" /\ child["emulator"] = "reaped"

\* C1: whatever the emulator child died with, the outer exit code is 0 for a
\* raw code of 5, 1 for a missing code, and the raw code itself otherwise.
C1_ExitCodeRemap ==
  SupervisorExited =>
    /\ childCode = 5 => exitCode = 0
    /\ childCode = NoCode => exitCode = 1
    /\ childCode \notin {5, NoCode} => exitCode = childCode

C1_Witness == SupervisorExited /\ childCode = 5 /\ exitCode = 0

\* C2 (as claimed): with a timeout, the child is killed exactly when the window
\* elapsed without the child exiting, a child that exits in the window gives its
\* own code and is not killed, and a kill is always followed by the reaping wait
\* before the outer process ends.
C2_KillThenReap ==
  (pc = "done" /\ opts.timeout # NoTimeout /\ "emulator" \in SpawnedSet) =>
    /\ killIssued = (waitResult = "None")
    /\ waitResult = "Some" => (status_code = childCode /\ ~killIssued)
    /\ killIssued => child["emulator"] = "reaped"

\* C3 (as claimed): when the outer process ends, every child it spawned has
\* been reaped.
C3_NoLeakedChild ==
  pc = "done" => \A p \in Procs : child[p] \in {"none", "reaped"}

\* C4: a build whose output directory is missing fails with OutNotExist before
\* anything is spawned when create_out is off; with create_out on it never fails
\* with OutNotExist, and it goes on to the compiler with the directory present
\* once create_dir_all has returned Ok.
C4_OutDirPolicy ==
  (subcmd = "Build" /\ stages # <<>>) =>
    /\ (~outExists /\ ~opts.create_out) =>
         /\ err = "OutNotExist"
         /\ spawns = <<>>
         /\ stages = <<"ValidateOutputDir">>
    /\ opts.create_out =>
         /\ err # "OutNotExist"
         /\ outcomes["ValidateOutputDir"] \in {"ok", "io_err"}
         /\ outcomes["ValidateOutputDir"] = "ok" => outExists
         /\ (outcomes["ValidateOutputDir"] = "ok" /\ Len(stages) = 1) => pc = "CompileKernel"
    /\ err = "OutNotExist" => (~opts.create_out /\ ~outExists /\ spawns = <<>>)

C4_Witness ==
  subcmd = "Build" /\ pc = "done" /\ err = "OutNotExist" /\ exitCode = 1 /\ spawns = <<>>

\* the caller asked for the UEFI variant
UefiRequested == IF subcmd = "Build" THEN ~opts.disable_uefi ELSE RunCallArgs[1]

HasFirmwareBios ==
  \E i \in 1..(Len(argv) - 1) : argv[i] = "--firmware" /\ argv[i + 1] = "bios"

\* C5 (as claimed): the builder's argv holds `--firmware bios` exactly when the
\* UEFI variant was not requested.
C5_FirmwareOverride ==
  argv # <<>> => (HasFirmwareBios <=> ~UefiRequested)

\* the caller asked for variant v
Requested(v) ==
  IF subcmd = "Build"
    THEN (IF v = "bios" THEN ~opts.disable_bios ELSE ~opts.disable_uefi)
    ELSE v = "bios"

BuildSucceeded == subcmd = "Build" /\ pc = "done" /\ exitCode = 0

\* C6 (as claimed): a successful build holds every requested variant.
C6_RequestedPresent ==
  BuildSucceeded => \A v \in Variants : Requested(v) => diskimage[v] # None

\* C6 (amended): a successful build holds exactly the variants whose candidate
\* artifact existed when the builder returned, requested or not, and reports
\* exactly those; a requested variant without artifact leaves its slot None.
C6_PresentIffEmitted ==
  BuildSucceeded =>
    /\ \A v \in Variants : (diskimage[v] # None) = (preMove[v] # NoFile)
    /\ reported = {v \in Variants : preMove[v] # NoFile}

C6_Witness ==
  /\ BuildSucceeded
  /\ \E v \in Variants : Requested(v) /\ diskimage[v] = None /\ v \notin reported

StageSucceeded(s) == outcomes[s] \in {"ok", "exit_0"}

\* C7: the stages of a build start in the fixed order, each one once and only
\* after the stage before it succeeded.
C7_StageOrder ==
  subcmd = "Build" =>
    /\ Len(stages) <= Len(StageOrder)
    /\ \A i \in 1..Len(stages) :
         /\ stages[i] = StageOrder[i]
         /\ i > 1 => StageSucceeded(StageOrder[i - 1])

C7_Witness == subcmd = "Build" /\ stages = StageOrder /\ pc = "done"

StageFailed(s) == outcomes[s] \notin {"pending", "running", "ok", "exit_0"}

Failed == \E i \in 1..Len(StageOrder) : StageFailed(StageOrder[i])

NothingMoved == \A v \in Variants : ioResult[v].rename = None

\* C8: once a stage has failed no stage starts, nothing is spawned, no file or
\* directory changes, and the process ends with a non-zero code; after a failed
\* compilation the builder never ran and no image was moved.
C8_ShortCircuit ==
  /\ [][Failed => /\ stages' = stages
                  /\ spawns' = spawns
                  /\ fs' = fs
                  /\ outExists' = outExists
                  /\ Failed']_vars
  /\ []((pc = "done" /\ Failed) => exitCode \notin {0, NotExited})
  /\ [](StageFailed("CompileKernel") =>
          ("builder" \notin SpawnedSet /\ argv = <<>> /\ NothingMoved))

C8_Witness ==
  /\ pc = "done" /\ exitCode = 1
  /\ outcomes["CompileKernel"] = "exit_nonzero"
  /\ "builder" \notin SpawnedSet

\* create_kernel_diskimage returned Ok
DiskimageReturned == outcomes["Materialize"] = "ok"

\* C9: after create_kernel_diskimage returned Ok with a variant present, the
\* intermediate artifact is gone and the file in the output directory has the
\* content the artifact had before the move.
C9_RelocationIsMove ==
  \A v \in Variants :
    (DiskimageReturned /\ diskimage[v] # None) =>
      /\ diskimage[v] = OutPath(v)
      /\ fs[CandidatePath(v)] = NoFile
      /\ fs[OutPath(v)] = preMove[v]
      /\ preMove[v] # NoFile

C9_Witness ==
  /\ DiskimageReturned
  /\ \A v \in Variants : diskimage[v] # None /\ fs[OutPath(v)] = preMove[v]
  /\ preMove["bios"] # preMove["uefi"]

\* C10: a variant whose candidate does not exist after the builder gets None
\* and no rename, requested or not; Move and FindMoved come only from a
\* candidate that existed and whose rename, resp. canonicalize, failed.
C10_MissingVariantPolicy ==
  /\ \A v \in Variants :
       (outcomes["Materialize"] # "pending" /\ preMove[v] = NoFile) =>
         /\ diskimage[v] = None
         /\ ioResult[v] = [rename |-> None, canonicalize |-> None]
  /\ err = "Move" =>
       \E v \in Variants : preMove[v] # NoFile /\ ioResult[v].rename = "err"
  /\ err = "FindMoved" =>
       \E v \in Variants : /\ preMove[v] # NoFile
                           /\ ioResult[v] = [rename |-> "ok", canonicalize |-> "err"]
  /\ (pc \in {"Report", "Expect"} /\ \A v \in Variants : preMove[v] = NoFile) =>
       (err = None /\ \A v \in Variants : diskimage[v] = None)

C10_Witness ==
  /\ subcmd = "Build" /\ ~opts.disable_bios /\ ~opts.disable_uefi
  /\ pc = "Report" /\ err = None
  /\ preMove["bios"] = NoFile /\ diskimage["bios"] = None
  /\ diskimage["uefi"] # None

\* C11 (as claimed): the outer process ends with 0 on success and with 1 on
\* every failure; any other value is the emulator child's own code, passed
\* through by run_vm.
C11_ExitCodes ==
  pc = "done" =>
    /\ \/ exitCode = 0
       \/ exitCode = 1
       \/ SupervisorExited /\ exitCode = childCode
    /\ err # None => exitCode = 1
    /\ (subcmd = "Build" /\ err = None) => exitCode = 0

\* the child has been spawned and not yet waited on
Unreaped(p) == child[p] \in {"running", "zombie"}

\* C12: at most one spawned child is unreaped at any instant, and a process is
\* spawned only when every process spawned before it has been waited on.
C12_OneChildAtATime ==
  /\ [](Cardinality({p \in Procs : Unreaped(p)}) <= 1)
  /\ [][spawns' # spawns => \A p \in Procs : child[p] \in {"none", "reaped"}]_vars

C12_Witness ==
  /\ spawns = <<"builder", "emulator">>
  /\ child["builder"] = "reaped"
  /\ child["emulator"] = "running"

\* C13 (as claimed): once the emulator has been spawned, the outer process ends
\* only through run_vm's exit(..), with the remapped code of the child.
C13_EndsWithRemappedCode ==
  ("emulator" \in SpawnedSet /\ pc = "done") =>
    /\ SupervisorExited
    /\ err = None
    /\ exitCode = IF status_code = NoCode THEN 1
                  ELSE IF status_code = 5 THEN 0 ELSE status_code

\* C14 (as claimed): every path tested, moved or passed to a sub-process is in
\* canonical form at the moment of that use.
C14_AllUsesCanonical ==
  \A u \in uses : u.form = "canonical"

\* the uses whose path comes from the canonicalized kernel binary path or from
\* a canonicalized image path
CanonicalUses ==
  {"--kernel-binary", "--out-dir", "exists", "rename from", "emulator -drive"}

\* C14 (amended): the kernel binary path, the paths derived from it and the
\* image path given to the emulator are canonical when used; a rename
\* destination has the form of the output directory as the caller gave it and
\* is canonical only in the returned pair; the manifest and target-dir
\* arguments have the form locate_manifest returned.
C14_CanonicalWhereCanonicalized ==
  /\ \A u \in uses : u.use \in CanonicalUses => u.form = "canonical"
  /\ \A u \in uses : u.use = "rename to" => u.form = form["out"]
  /\ \A u \in uses :
       u.use \in {"--kernel-manifest", "--target-dir"} => u.form = form["kernel_manifest"]
  /\ \A v \in Variants : diskimage[v] # None => form[v] = "canonical"

C14_Witness ==
  /\ \E u \in uses : u.use = "rename to" /\ u.path = OutPath("bios") /\ u.form = "raw"
  /\ \E u \in uses : u.use = "emulator -drive" /\ u.form = "canonical"
  /\ \E u \in uses : u.use = "--kernel-binary" /\ u.form = "canonical"
  /\ form["binary_path"] = "raw"

\* position of a stage in the stage log, 0 when it has not started
StageIndex(s) ==
  IF \E i \in 1..Len(stages) : stages[i] = s
    THEN CHOOSE i \in 1..Len(stages) : stages[i] = s
    ELSE 0

EmulatorSpawned == "emulator" \in SpawnedSet

\* C15 (as claimed): before the emulator is spawned, the run operation has
\* validated the output directory, compiled the kernel, invoked the builder and
\* materialized the image, in that order.
C15_RunIsBuildThenEmulator ==
  (subcmd = "Run" /\ EmulatorSpawned) =>
    /\ 0 < StageIndex("ValidateOutputDir")
    /\ StageIndex("ValidateOutputDir") < StageIndex("CompileKernel")
    /\ StageIndex("CompileKernel") < StageIndex("InvokeBootloaderBuilder")
    /\ StageIndex("InvokeBootloaderBuilder") < StageIndex("Materialize")
    /\ "compiler" \in SpawnedSet

\* C15 (amended): the run operation runs only the builder invocation and the
\* materialization, in that order, on the canonicalized binary path of the
\* caller, before it spawns the emulator; it never validates the output
\* directory, compiles, resolves the descriptor or reports.
C15_RunIsBuilderThenEmulator ==
  subcmd = "Run" =>
    /\ \/ stages = <<>>
       \/ stages = <<"InvokeBootloaderBuilder">>
       \/ stages = <<"InvokeBootloaderBuilder", "Materialize">>
    /\ "compiler" \notin SpawnedSet
    /\ reported = {}
    /\ EmulatorSpawned =>
         /\ stages = <<"InvokeBootloaderBuilder", "Materialize">>
         /\ StageSucceeded("InvokeBootloaderBuilder")
         /\ StageSucceeded("Materialize")
         /\ spawns = <<"builder", "emulator">>
         /\ form["kernel_binary_path"] = "canonical"

C15_Witness ==
  /\ subcmd = "Run" /\ EmulatorSpawned
  /\ child["emulator"] = "running"
  /\ outcomes["ValidateOutputDir"] = "pending"
  /\ outcomes["CompileKernel"] = "pending"

\* C16: in the run operation the emulator is spawned only after the builder
\* exited successfully and the BIOS artifact was moved to out/bios.img, and it
\* is given that image; after a failed builder, a failed move or without BIOS
\* artifact the emulator is never spawned and the exit code is not 0.
C16_EmulatorGetsBiosImage ==
  /\ EmulatorSpawned =>
       /\ subcmd = "Run"
       /\ outcomes["InvokeBootloaderBuilder"] = "exit_0"
       /\ ioResult["bios"] = [rename |-> "ok", canonicalize |-> "ok"]
       /\ preMove["bios"] # NoFile
       /\ fs[OutPath("bios")] = preMove["bios"]
       /\ drive = OutPath("bios")
       /\ \A u \in uses : u.use = "emulator -drive" => u.path = OutPath("bios")
  /\ ( /\ subcmd = "Run"
       /\ \/ StageFailed("InvokeBootloaderBuilder")
          \/ StageFailed("Materialize")
          \/ DiskimageReturned /\ preMove["bios"] = NoFile ) =>
       /\ ~EmulatorSpawned
       /\ pc # "Spawn"
       /\ pc = "done" => exitCode \notin {0, NotExited}

C16_Witness ==
  /\ EmulatorSpawned
  /\ drive = OutPath("bios")
  /\ diskimage["uefi"] = OutPath("uefi")
  /\ \E u \in uses : u.use = "emulator -drive" /\ u.path = OutPath("bios")

\* the rename or the canonicalize of the UEFI candidate returned Err
UefiStepFailed ==
  ioResult["uefi"].rename = "err" \/ ioResult["uefi"].canonicalize = "err"

\* C17: the UEFI candidate is handled only after the BIOS candidate was moved,
\* and when its rename or canonicalize fails create_kernel_diskimage returns
\* the error while out/bios.img keeps the BIOS artifact and the BIOS candidate
\* stays removed.
C17_NoRollback ==
  /\ ioResult["uefi"].rename # None =>
       /\ outcomes["Materialize"] # "pending"
       /\ preMove["bios"] # NoFile =>
            /\ ioResult["bios"] = [rename |-> "ok", canonicalize |-> "ok"]
            /\ diskimage["bios"] = OutPath("bios")
  /\ UefiStepFailed =>
       /\ err \in {"Move", "FindMoved"}
       /\ outcomes["Materialize"] = err
       /\ pc \in {"MainErr", "done"}
       /\ diskimage["uefi"] = None
       /\ preMove["bios"] # NoFile =>
            /\ fs[OutPath("bios")] = preMove["bios"]
            /\ fs[CandidatePath("bios")] = NoFile

C17_Witness ==
  /\ UefiStepFailed
  /\ pc = "done" /\ exitCode = 1
  /\ preMove["bios"] # NoFile
  /\ fs[OutPath("bios")] = preMove["bios"]
  /\ fs[CandidatePath("bios")] = NoFile

\* C18: the slots of the returned pair are filled exactly for the candidates
\* that existed when the builder returned, whatever the uefi / _bios flags
\* were, and a build reports exactly those, disabled variants included.
C18_SlotsFollowFiles ==
  /\ DiskimageReturned =>
       \A v \in Variants :
         /\ preMove[v] # NoFile => (diskimage[v] = OutPath(v) /\ fs[OutPath(v)] = preMove[v])
         /\ preMove[v] = NoFile => diskimage[v] = None
  /\ outcomes["Report"] = "ok" =>
       \A v \in Variants : (v \in reported) = (preMove[v] # NoFile)

C18_Witness ==
  /\ subcmd = "Build" /\ pc = "done" /\ exitCode = 0
  /\ opts.disable_uefi /\ opts.disable_bios
  /\ HasFirmwareBios
  /\ diskimage["uefi"] = OutPath("uefi")
  /\ "uefi" \in reported

====
